---- MODULE Spec2Model ----
(***************************************************************************)
(* Long/short rebalancer of backtesting_wth_backtrader.ipynb               *)
(* (MLStrategy.next), driven bar by bar by the backtesting engine.         *)
(*                                                                         *)
(* One bar is one rebalancing event: the engine calls next(), next() reads *)
(* the data feeds and the open positions and emits order_target_percent    *)
(* instructions, the engine's broker fills them, and the next bar follows. *)
(* Scores are kept as integers (tenths), target weights as fractions n/d.  *)
(***************************************************************************)
EXTENDS Integers, Sequences, FiniteSets, TLC

\* ---------------------------------------------------------------- bounds
\* largest n_positions / min_positions the strategy is configured with
MaxPositions == 2
MaxMinPositions == 2

\* ------------------------------------------------------------ data feeds
\* cerebro.adddata(bt_data, name=ticker): the feeds, in the order added
Datas == <<"A", "B", "C", "D">>

Names == {Datas[i] : i \in 1..Len(Datas)}

\* values of the `predicted` line, in tenths
Scores == {-4, -2, 0, 3, 5}

\* the values of the predicted line in a cross-section with gaps
SparseScores == {-2, 0, 3}

\* a prediction the right join of the data assembler left null
NaN == <<>>

Predicted == {NaN} \cup {<<s>> : s \in Scores}

\* the current bar of one feed as next() reads it:
\*   dated     - data.datetime.date() == today
\*   predicted - data.predicted[0]
\* a feed without a bar today still shows its last bar: predicted[0] is stale
SignalData == [dated : BOOLEAN, predicted : Predicted]

\* every feed has a bar dated today that carries a prediction
Complete == [Names -> {[dated |-> TRUE, predicted |-> <<s>>] : s \in Scores}]

\* feeds may lack a bar dated today, or its prediction; today is the date
\* of datas[0], so that feed is always dated today
Sparse ==
    {x \in [Names -> {b \in SignalData :
                            \/ b.predicted = NaN
                            \/ b.dated /\ b.predicted[1] \in SparseScores}] :
        x[Datas[1]].dated}

\* a feed has a scored bar dated today or shows the score of an older bar
Stale ==
    {x \in [Names -> [dated : BOOLEAN, predicted : {<<-2>>, <<3>>}]] : x[Datas[1]].dated}

\* the cross-sections a bar can bring
CrossSections == Complete \cup Sparse \cup Stale

\* ------------------------------------------------------------- fractions
Frac(n, d) == [n |-> n, d |-> d]
Zero == Frac(0, 1)

Max(a, b) == IF a >= b THEN a ELSE b
Min(a, b) == IF a <= b THEN a ELSE b

Range(s) == {s[i] : i \in 1..Len(s)}

\* ------------------------------------------------------- pieces of next()
\* variant: >= 0 where the code has > 0
IsUpOrZero(v) == v # NaN /\ v[1] >= 0

\* data.predicted[0] > 0 / < 0; both comparisons are False on NaN
IsUp(v) == v # NaN /\ v[1] > 0
IsDown(v) == v # NaN /\ v[1] < 0

\* variant: without the test data.datetime.date() == today
UpOfAnyDate(x) ==
    [t \in {u \in Names : IsUp(x[u].predicted)} |-> x[t].predicted[1]]

\* the dict `up` after the loop over self.datas
UpOf(x) ==
    [t \in {u \in Names : x[u].dated /\ IsUp(x[u].predicted)} |-> x[t].predicted[1]]

\* variant: `if` where the code has `elif`, and the test < 0 left out
DownOfEveryScore(x) ==
    [t \in {u \in Names : x[u].dated /\ (IsDown(x[u].predicted) \/ IsUp(x[u].predicted))}
        |-> x[t].predicted[1]]

\* the dict `down` after the loop over self.datas
DownOf(x) ==
    [t \in {u \in Names : x[u].dated /\ IsDown(x[u].predicted)} |-> x[t].predicted[1]]

\* the orders in which iterating a dict with key set S can yield its keys
\* (CPython 3.5: any order, fixed for one dict built the same way)
RECURSIVE IterOrders(_)
IterOrders(S) ==
    IF S = {} THEN {<<>>}
    ELSE UNION {{<<k>> \o s : s \in IterOrders(S \ {k})} : k \in S}

RECURSIVE InsertStable(_, _, _, _)
\* put k into the sorted list s behind every element that does not sort after it
InsertStable(s, k, key, reverse) ==
    IF s = <<>> THEN <<k>>
    ELSE LET stays == IF reverse THEN key[Head(s)] >= key[k]
                                 ELSE key[Head(s)] <= key[k]
         IN  IF stays THEN <<Head(s)>> \o InsertStable(Tail(s), k, key, reverse)
                      ELSE <<k>> \o s

RECURSIVE sortedNoReverse(_, _, _)
\* variant: the reverse flag is dropped, every sort is ascending
sortedNoReverse(iter, key, reverse) ==
    IF iter = <<>> THEN <<>>
    ELSE InsertStable(sortedNoReverse(SubSeq(iter, 1, Len(iter) - 1), key, reverse),
                      iter[Len(iter)], key, FALSE)

RECURSIVE sorted(_, _, _)
\* sorted(iterable, key=..., reverse=...): a stable sort of the iteration order
sorted(iter, key, reverse) ==
    IF iter = <<>> THEN <<>>
    ELSE InsertStable(sorted(SubSeq(iter, 1, Len(iter) - 1), key, reverse),
                      iter[Len(iter)], key, reverse)

\* variant: the list is not truncated
SliceNone(lst, n) == lst

\* lst[:n]
Slice(lst, n) == SubSeq(lst, 1, Min(n, Len(lst)))

\* variant: only positive positions count as held
PositionsLongOnly(pos) == SelectSeq(Datas, LAMBDA t : pos[t].n > 0)

\* positions = [d._name for d, pos in self.getpositions().items() if pos]
Positions(pos) == SelectSeq(Datas, LAMBDA t : pos[t].n # 0)

\* variant: each side is rejected on its own count only
GateEachSide(l, s, n_l, n_s, min_n) ==
    [longs  |-> IF n_l < min_n THEN <<>> ELSE l,
     shorts |-> IF n_s < min_n THEN <<>> ELSE s]

\* only take positions if at least min_n longs and shorts
Gate(l, s, n_l, n_s, min_n) ==
    IF n_s < min_n \/ n_l < min_n
    THEN [longs |-> <<>>, shorts |-> <<>>]
    ELSE [longs |-> l, shorts |-> s]

\* variant: if ticker not in longs
ClosingNotInLongs(positions, l, s) ==
    SelectSeq(positions, LAMBDA t : t \notin Range(l))

\* variant: if ticker not in shorts
ClosingNotInShorts(positions, l, s) ==
    SelectSeq(positions, LAMBDA t : t \notin Range(s))

\* variant: if ticker in longs + shorts
ClosingInverted(positions, l, s) ==
    SelectSeq(positions, LAMBDA t : t \in Range(l \o s))

\* the tickers of the closing loop: if ticker not in longs + shorts
Closing(positions, l, s) ==
    SelectSeq(positions, LAMBDA t : t \notin Range(l \o s))

\* variant: the target is given in percent, -100 / max(...)
ShortTargetPercent(n_pos, n_s) == Frac(-100, Max(n_pos, n_s))

\* -1 / max(self.p.n_positions, n_shorts)
ShortTarget(n_pos, n_s) == Frac(-1, Max(n_pos, n_s))

\* variant: equal slices of the realized count, 1 / max(1, n_longs)
LongTargetRealized(n_pos, n_l) == Frac(1, Max(1, n_l))

\* 1 / max(self.p.n_positions, n_longs)
LongTarget(n_pos, n_l) == Frac(1, Max(n_pos, n_l))

\* the order_target_percent calls of one loop, in loop order
OrdersFor(tickers, target) ==
    [i \in 1..Len(tickers) |-> [data |-> tickers[i], target |-> target]]

\* ------------------------------------------------------------------ state
VARIABLES
    p,             \* self.p: n_positions, min_positions
    position,      \* self.getpositions(): held weight of every feed
    pc,            \* "idle" | "ordered" | "filled"
    bars,          \* the cross-section next() read
    up, down,      \* the dicts of next()
    top_longs,     \* sorted(up, ..., reverse=True)[:n_positions]
    top_shorts,    \* sorted(down, ...)[:n_positions]
    n_longs, n_shorts,
    longs, shorts, \* after the gate
    long_target, short_target,
    orders,        \* the order_target_percent calls of this bar, in order
    again          \* this bar repeats the cross-section of the bar before

vars == <<p, position, pc, bars, up, down, top_longs, top_shorts,
          n_longs, n_shorts, longs, shorts, long_target, short_target,
          orders, again>>

\* get_backtest_data of data_prep1.ipynb: its two inputs and its locals
VARIABLES
    predictions,   \* store['lasso/predictions']: the rows of the table
    prices,        \* store['quandl/wiki/prices']: the (ticker, date) rows
    jpc,           \* "called" | "returned" | "raised"
    best_alpha,    \* line 74
    selected,      \* predictions after line 75, in row order
    restricted,    \* prices after line 81, in index order
    result,        \* the rows of the returned frame, in order
    error          \* the exception that left the function, if any

joinVars == <<predictions, prices, jpc, best_alpha, selected, restricted,
              result, error>>

\* "Identify Sections" of sec_preprocessing.ipynb, on one filing
VARIABLES
    filing,        \* filing.read_text()
    parts,         \* filing.read_text().lower().split(degree sign)
    s_i,           \* the section the loop is at
    items,         \* the dict of the loop: item code -> text
    log,           \* what the loop has reported
    txt,           \* the rows written to the sections csv
    epc            \* "loop" | "written"

extractVars == <<filing, parts, s_i, items, log, txt, epc>>

\* the passes of sec_preprocessing.ipynb over the directories
VARIABLES
    filings,       \* filing_path.glob('*.txt'): the stems
    undecodable,   \* the filings read_text() cannot decode
    oversized,     \* the filings with a section longer than nlp.max_length
    written,       \* every output file -> the times it was written (0: absent)
    bpc,           \* the pass that is running, or "idle"
    todo,          \* what the running loop has still to visit
    n_level,       \* n of create_ngrams' loop
    ended,         \* the pass before and how it ended: <<pass, "done" | exception>>
    passes,        \* the passes started so far
    interrupted    \* the clean files that were there when a pass was interrupted

batchVars == <<filings, undecodable, oversized, written, bpc, todo, n_level,
               ended, passes, interrupted>>

\* the algorithm of single_factor_zipline.ipynb
VARIABLES
    portfolio,     \* context.portfolio.positions: asset -> amount held (0: no key)
    open_orders,   \* the blotter: asset -> the amounts of its open orders
    tradable,      \* the assets data.can_trade() is True for on this bar
    factor_data,   \* context.factor_data: the columns longs and shorts
    divest,        \* the local of rebalance
    requested,     \* the calls of order_target_percent in the last rebalance
    zpc,           \* where the trading day is
    days           \* the trading days so far

zipVars == <<portfolio, open_orders, tradable, factor_data, divest, requested,
             zpc, days>>

\* "Parse Sections" of sec_preprocessing.ipynb, on one sections csv
VARIABLES
    csv,           \* the rows of text_file: <<item, text>>, text as nlp splits it
    frame,         \* items: the rows that are left after line 321
    clean_doc,     \* the rows [item, s, text] of the loop
    clean_file,    \* the rows written to clean_file
    tpc            \* "start" | "read" | "written"

tokenVars == <<csv, frame, clean_doc, clean_file, tpc>>

\* one pass of create_ngrams of sec_preprocessing.ipynb
VARIABLES
    corpus,             \* ngrams_{n-1}.txt: <<sentence, the lines that hold it>>
    vocab,              \* phrases.vocab: token or joined pair -> count
    corpus_word_count,  \* phrases.corpus_word_count
    phrasegrams,        \* grams.phrasegrams: the pairs that score above threshold
    next_corpus,        \* ngrams_{n}.txt
    ppc                 \* "start" | "learned" | "frozen" | "written"

phraseVars == <<corpus, vocab, corpus_word_count, phrasegrams, next_corpus, ppc>>

\* the variables of the components that follow
lateVars == <<zipVars, tokenVars, phraseVars>>

\* every variable of the notebooks
allVars == <<vars, joinVars, extractVars, batchVars, lateVars>>

\* the function has not been called: the notebook of the strategy or of the
\* filings is the one that runs
JoinerParked ==
    /\ predictions = {} /\ prices = {}
    /\ jpc = "parked"
    /\ best_alpha = NaN
    /\ selected = <<>> /\ restricted = <<>> /\ result = <<>>
    /\ error = ""

ExtractorParked ==
    /\ filing = <<>> /\ parts = <<>>
    /\ s_i = 0
    /\ items = <<>>
    /\ log = <<>> /\ txt = <<>>
    /\ epc = "parked"

BatchParked ==
    /\ filings = {} /\ undecodable = {} /\ oversized = {}
    /\ written = <<>>
    /\ bpc = "parked"
    /\ todo = {}
    /\ n_level = 0
    /\ ended = <<>>
    /\ passes = 0
    /\ interrupted = {}

\* no algorithm runs
ZipParked ==
    /\ portfolio = <<>> /\ open_orders = <<>>
    /\ tradable = {}
    /\ factor_data = <<>>
    /\ divest = {}
    /\ requested = <<>>
    /\ zpc = "parked"
    /\ days = 0

\* no sections csv is parsed
TokenParked ==
    /\ csv = <<>> /\ frame = <<>>
    /\ clean_doc = <<>> /\ clean_file = <<>>
    /\ tpc = "parked"

\* no pass of create_ngrams runs
PhraseParked ==
    /\ corpus = <<>> /\ vocab = <<>>
    /\ corpus_word_count = 0
    /\ phrasegrams = {}
    /\ next_corpus = <<>>
    /\ ppc = "parked"

\* the components that follow are not run
LateParked == ZipParked /\ TokenParked /\ PhraseParked

NoBars == [t \in Names |-> [dated |-> FALSE, predicted |-> NaN]]

\* no strategy runs: another notebook is the one that runs
RebalancerParked ==
    /\ p = [n_positions |-> 1, min_positions |-> 1]
    /\ position = [t \in Names |-> Zero]
    /\ pc = "parked"
    /\ bars = NoBars
    /\ up = <<>> /\ down = <<>>
    /\ top_longs = <<>> /\ top_shorts = <<>>
    /\ n_longs = 0 /\ n_shorts = 0
    /\ longs = <<>> /\ shorts = <<>>
    /\ long_target = Zero /\ short_target = Zero
    /\ orders = <<>>
    /\ again = FALSE

Init ==
    /\ p \in [n_positions : 1..MaxPositions, min_positions : 1..MaxMinPositions]
    /\ position = [t \in Names |-> Zero]
    /\ pc = "idle"
    /\ bars = NoBars
    /\ up = <<>> /\ down = <<>>
    /\ top_longs = <<>> /\ top_shorts = <<>>
    /\ n_longs = 0 /\ n_shorts = 0
    /\ longs = <<>> /\ shorts = <<>>
    /\ long_target = Zero /\ short_target = Zero
    /\ orders = <<>>
    /\ again = FALSE
    /\ JoinerParked /\ ExtractorParked /\ BatchParked /\ LateParked

\* MLStrategy.next on cross-section x, the dicts iterating in iterU / iterD;
\* the conjuncts follow the statements of the method, a primed variable is
\* the local once assigned
next(x, iterU, iterD) ==
    /\ bars' = x
    /\ up' = UpOf(x)
    /\ down' = DownOf(x)
    /\ top_shorts' = Slice(sorted(iterD, down', FALSE), p.n_positions)
    /\ top_longs' = Slice(sorted(iterU, up', TRUE), p.n_positions)
    /\ n_shorts' = Len(top_shorts')
    /\ n_longs' = Len(top_longs')
    /\ \E g \in {Gate(top_longs', top_shorts', n_longs', n_shorts', p.min_positions)} :
          /\ longs' = g.longs
          /\ shorts' = g.shorts
    /\ short_target' = ShortTarget(p.n_positions, n_shorts')
    /\ long_target' = LongTarget(p.n_positions, n_longs')
    /\ orders' = OrdersFor(Closing(Positions(position), longs', shorts'), Zero)
                    \o OrdersFor(shorts', short_target')
                    \o OrdersFor(longs', long_target')
    /\ pc' = "ordered"
    /\ UNCHANGED <<p, position>>

\* a bar with a new cross-section arrives and the engine calls next()
Bar ==
    /\ pc = "idle"
    /\ \E x \in CrossSections :
         \E iterU \in IterOrders(DOMAIN UpOf(x)), iterD \in IterOrders(DOMAIN DownOf(x)) :
            next(x, iterU, iterD)
    /\ again' = FALSE
    /\ UNCHANGED <<joinVars, extractVars, batchVars, lateVars>>

\* the following bar carries the same cross-section: the dicts are built by
\* the same insertions in the same process, so they iterate as before
SameBar ==
    /\ pc = "filled"
    /\ \E iterU \in IterOrders(DOMAIN up), iterD \in IterOrders(DOMAIN down) :
         /\ next(bars, iterU, iterD)
         /\ top_longs' = top_longs
         /\ top_shorts' = top_shorts
    /\ again' = TRUE
    /\ UNCHANGED <<joinVars, extractVars, batchVars, lateVars>>

RECURSIVE ApplyOrders(_, _)
ApplyOrders(pos, os) ==
    IF os = <<>> THEN pos
    ELSE ApplyOrders([pos EXCEPT ![Head(os).data] = Head(os).target], Tail(os))

\* the execution sink applies the instructions of the bar; none stays pending
Fill ==
    /\ pc = "ordered"
    /\ position' = ApplyOrders(position, orders)
    /\ pc' = "filled"
    /\ orders' = <<>>
    /\ UNCHANGED <<p, bars, up, down, top_longs, top_shorts, n_longs, n_shorts,
                   longs, shorts, long_target, short_target, again>>
    /\ UNCHANGED <<joinVars, extractVars, batchVars, lateVars>>

\* next() has returned; its locals are gone when the following bar differs
Return ==
    /\ pc = "filled"
    /\ pc' = "idle"
    /\ bars' = NoBars
    /\ up' = <<>> /\ down' = <<>>
    /\ top_longs' = <<>> /\ top_shorts' = <<>>
    /\ n_longs' = 0 /\ n_shorts' = 0
    /\ longs' = <<>> /\ shorts' = <<>>
    /\ long_target' = Zero /\ short_target' = Zero
    /\ orders' = <<>>
    /\ again' = FALSE
    /\ UNCHANGED <<p, position>>
    /\ UNCHANGED <<joinVars, extractVars, batchVars, lateVars>>

Next == Bar \/ SameBar \/ Fill \/ Return

Spec == Init /\ [][Next]_allVars

TypeOK ==
    /\ pc \in {"idle", "ordered", "filled"}
    /\ bars \in [Names -> SignalData]
    /\ Range(longs) \subseteq Names /\ Range(shorts) \subseteq Names

\* ------------------------------------------------- notions of the claims
\* the instruments with a non-zero position
Held == {t \in Names : position[t].n # 0}

\* the instruments that receive a liquidation instruction (target weight 0)
Liquidated == {orders[i].data : i \in {j \in DOMAIN orders : orders[j].target.n = 0}}

\* the instructions with a non-zero target weight
TargetOrders == {i \in DOMAIN orders : orders[i].target.n # 0}

\* the signal records of the cross-section: dated today, with a score
Scored(x) == {t \in Names : x[t].dated /\ x[t].predicted # NaN}

ScoreOf(x, t) == x[t].predicted[1]

NoDuplicates(s) == \A i, j \in DOMAIN s : s[i] = s[j] => i = j

\* the cross-section of section 8 of the specification, in tenths
Example ==
    [t \in Names |->
        [dated |-> TRUE,
         predicted |-> <<CASE t = "A" -> 5 [] t = "B" -> 3 [] t = "C" -> -2 [] OTHER -> -4>>]]

\* sum of the target weights of the instructions in the index set I
RECURSIVE SumTargets(_)
SumTargets(I) ==
    IF I = {} THEN Zero
    ELSE LET i == CHOOSE j \in I : TRUE
             r == SumTargets(I \ {i})
             w == orders[i].target
         IN  Frac(r.n * w.d + w.n * r.d, r.d * w.d)

Abs(n) == IF n < 0 THEN -n ELSE n

\* ------------------------------------------------------------------- C1
\* C1: whenever the long candidates are fewer than min_positions or the
\* short candidates are fewer than min_positions, the event's long set and
\* short set are both empty and no target-weight instruction is emitted,
\* even when the other side has enough candidates.
C1_AllOrNothingGate ==
    pc = "ordered" =>
        ((Len(top_longs) < p.min_positions \/ Len(top_shorts) < p.min_positions)
            => /\ longs = <<>>
               /\ shorts = <<>>
               /\ TargetOrders = {})

\* the short side alone has enough candidates, and both sides are rejected
C1_Witness ==
    /\ pc = "ordered"
    /\ Len(top_longs) < p.min_positions
    /\ Len(top_shorts) >= p.min_positions
    /\ longs = <<>> /\ shorts = <<>>

\* ------------------------------------------------------------------- C2
\* C2: the instruments that receive a liquidation instruction are exactly
\* the held instruments that are not in longs \cup shorts after the gate.
C2_LiquidationExact ==
    pc = "ordered" => Liquidated = Held \ (Range(longs) \cup Range(shorts))

\* one held instrument is liquidated while another held one stays a short
C2_Witness ==
    /\ pc = "ordered"
    /\ Liquidated # {}
    /\ Held \cap Range(shorts) # {}
    /\ Held \cap Range(longs) # {}

C4_TargetsByConfiguredMax ==
    pc = "ordered" =>
        /\ long_target = Frac(1, Max(p.n_positions, Len(longs)))
        /\ short_target = Frac(-1, Max(p.n_positions, Len(shorts)))
        /\ long_target = Frac(1, Max(p.n_positions, Len(top_longs)))
        /\ short_target = Frac(-1, Max(p.n_positions, Len(top_shorts)))
        /\ long_target = Frac(1, p.n_positions)
        /\ short_target = Frac(-1, p.n_positions)
        /\ \A i \in DOMAIN orders :
              orders[i].data \in Range(longs) => orders[i].target = Frac(1, p.n_positions)

\* a thin cross-section: fewer longs than n_positions are ordered
C4_Witness ==
    /\ pc = "ordered"
    /\ longs # <<>>
    /\ Len(longs) < p.n_positions
    /\ long_target = Frac(1, p.n_positions)

\* ------------------------------------------------------------------- C5
\* C5: the long candidates are the min(n_positions, |up|) instruments of up
\* with the highest scores, in descending score order; the short candidates
\* the min(n_positions, |down|) instruments of down with the lowest scores,
\* most negative first; the example cross-section with n_positions = 2 and
\* min_positions = 1 gives longs [A, B], shorts [D, C], targets 1/2, -1/2.
C5_CandidateSelection ==
    pc = "ordered" =>
        /\ Len(top_longs) = Min(p.n_positions, Cardinality(DOMAIN up))
        /\ Len(top_shorts) = Min(p.n_positions, Cardinality(DOMAIN down))
        /\ Range(top_longs) \subseteq DOMAIN up
        /\ Range(top_shorts) \subseteq DOMAIN down
        /\ NoDuplicates(top_longs) /\ NoDuplicates(top_shorts)
        /\ \A i, j \in DOMAIN top_longs : i < j => up[top_longs[i]] >= up[top_longs[j]]
        /\ \A i, j \in DOMAIN top_shorts : i < j => down[top_shorts[i]] <= down[top_shorts[j]]
        /\ \A t \in DOMAIN up \ Range(top_longs) :
              \A i \in DOMAIN top_longs : up[t] <= up[top_longs[i]]
        /\ \A t \in DOMAIN down \ Range(top_shorts) :
              \A i \in DOMAIN top_shorts : down[t] >= down[top_shorts[i]]
        /\ (bars = Example /\ p.n_positions = 2 /\ p.min_positions = 1)
              => /\ longs = <<"A", "B">>
                 /\ shorts = <<"D", "C">>
                 /\ long_target = Frac(1, 2)
                 /\ short_target = Frac(-1, 2)

\* the example of the specification has been run
C5_Witness ==
    /\ pc = "ordered"
    /\ bars = Example
    /\ p.n_positions = 2 /\ p.min_positions = 1
    /\ longs = <<"A", "B">> /\ shorts = <<"D", "C">>

\* ------------------------------------------------------------------- C6
\* C6: up holds exactly the instruments of the cross-section with score > 0,
\* down exactly those with score < 0, each with its score, and an
\* instrument with score 0 is in neither and is never a long or a short.
C6_PartitionBySign ==
    pc = "ordered" =>
        /\ DOMAIN up = {t \in Scored(bars) : ScoreOf(bars, t) > 0}
        /\ DOMAIN down = {t \in Scored(bars) : ScoreOf(bars, t) < 0}
        /\ \A t \in DOMAIN up : up[t] = ScoreOf(bars, t)
        /\ \A t \in DOMAIN down : down[t] = ScoreOf(bars, t)
        /\ \A t \in Scored(bars) :
              ScoreOf(bars, t) = 0 =>
                 /\ t \notin DOMAIN up \cup DOMAIN down
                 /\ t \notin Range(top_longs) \cup Range(top_shorts)
                 /\ t \notin Range(longs) \cup Range(shorts)

\* an instrument scores 0 while both sides take positions
C6_Witness ==
    /\ pc = "ordered"
    /\ \E t \in Scored(bars) : ScoreOf(bars, t) = 0
    /\ longs # <<>> /\ shorts # <<>>

\* the Portfolio State the longs, shorts and targets of the event describe
TargetState ==
    [t \in Names |-> IF t \in Range(longs) THEN long_target
                     ELSE IF t \in Range(shorts) THEN short_target
                     ELSE Zero]

\* ------------------------------------------------------------------- C7
\* C7: a target-weight instruction is emitted for every long at long_target
\* and every short at short_target, and once the event's instructions are
\* applied the portfolio holds exactly longs \cup shorts, each long at
\* long_target, each short at short_target, every other instrument at 0.
C7_InstructionsDetermineState ==
    /\ pc = "ordered" =>
          /\ \A t \in Range(longs) :
                \E i \in DOMAIN orders : orders[i] = [data |-> t, target |-> long_target]
          /\ \A t \in Range(shorts) :
                \E i \in DOMAIN orders : orders[i] = [data |-> t, target |-> short_target]
          /\ ApplyOrders(position, orders) = TargetState
    /\ pc = "filled" =>
          /\ Held = Range(longs) \cup Range(shorts)
          /\ position = TargetState

\* the instructions meet a portfolio that holds an instrument to liquidate
\* and one that changes sides, and applying them gives the target state
C7_Witness ==
    /\ pc = "ordered"
    /\ Liquidated # {}
    /\ \E t \in Range(longs) : position[t].n < 0
    /\ shorts # <<>>
    /\ ApplyOrders(position, orders) = TargetState

\* ------------------------------------------------------------------- C8
\* C8: at every event, after any sequence of events, the number of longs
\* and of shorts targeted, and of long and short positions held, is each
\* either 0 or within [min_positions, n_positions].
InBand(n) == n = 0 \/ (p.min_positions <= n /\ n <= p.n_positions)

C8_CountsZeroOrInBand ==
    /\ InBand(Len(longs))
    /\ InBand(Len(shorts))
    /\ InBand(Cardinality({i \in TargetOrders : orders[i].target.n > 0}))
    /\ InBand(Cardinality({i \in TargetOrders : orders[i].target.n < 0}))
    /\ InBand(Cardinality({t \in Names : position[t].n > 0}))
    /\ InBand(Cardinality({t \in Names : position[t].n < 0}))

\* more positive scores than n_positions, and the longs are cut to n_positions
C8_Witness ==
    /\ pc = "ordered"
    /\ Cardinality(DOMAIN up) > p.n_positions
    /\ Len(longs) = p.n_positions
    /\ Held # {}

\* ------------------------------------------------------------------- C9
\* C9: the target weights emitted on the long side sum to at most 1 in
\* magnitude, likewise on the short side, and every target weight emitted
\* lies in [-1, 1].
C9_WeightsBounded ==
    LET L  == {i \in DOMAIN orders : orders[i].target.n > 0}
        S  == {i \in DOMAIN orders : orders[i].target.n < 0}
        sl == SumTargets(L)
        ss == SumTargets(S)
    IN  /\ sl.d > 0 /\ Abs(sl.n) <= sl.d
        /\ ss.d > 0 /\ Abs(ss.n) <= ss.d
        /\ Len(longs) * Abs(long_target.n) <= long_target.d
        /\ Len(shorts) * Abs(short_target.n) <= short_target.d
        /\ \A i \in DOMAIN orders :
              orders[i].target.d > 0 /\ Abs(orders[i].target.n) <= orders[i].target.d

\* both sides are full: the weights of each side sum to exactly 1
C9_Witness ==
    /\ pc = "ordered"
    /\ p.n_positions > 1
    /\ Len(longs) = p.n_positions /\ Len(shorts) = p.n_positions
    /\ SumTargets({i \in DOMAIN orders : orders[i].target.n < 0}).n
          = -SumTargets({i \in DOMAIN orders : orders[i].target.n < 0}).d

\* ------------------------------------------------------------------ C10
\* C10: when the instructions of a bar have been applied and the following
\* bar carries the same cross-section, the second run emits no liquidation
\* instruction and has the same longs, shorts and targets as the first.
C10_SecondRunNoLiquidation ==
    [][(pc = "filled" /\ pc' = "ordered")
          => /\ Liquidated' = {}
             /\ longs' = longs /\ shorts' = shorts
             /\ long_target' = long_target /\ short_target' = short_target]_vars

\* a second run on the same cross-section with open positions on both sides
C10_Witness ==
    /\ pc = "ordered"
    /\ again
    /\ longs # <<>> /\ shorts # <<>>
    /\ Held = Range(longs) \cup Range(shorts)
    /\ Liquidated = {}

\* ------------------------------------------------------------------ C11
\* the keys of a score dict in the order the feeds were added (input order)
InputOrder(d) == SelectSeq(Datas, LAMBDA t : t \in DOMAIN d)

\* C11: when scores tie at the truncation boundary the selected candidates
\* are determined by the input order of the cross-section alone: ties are
\* broken by stable input order, so the long candidates are the first
\* n_positions of the input-ordered positive records stably sorted by score
\* descending, and the short candidates likewise ascending.
C11_TiesByInputOrder ==
    pc = "ordered" =>
        /\ top_longs = Slice(sorted(InputOrder(up), up, TRUE), p.n_positions)
        /\ top_shorts = Slice(sorted(InputOrder(down), down, FALSE), p.n_positions)

\* ===================================================== get_backtest_data
\* the signal-to-price joiner of data_prep1.ipynb
\* ---------------------------------------------------------------- bound
\* most rows of the predictions table
MaxRows == 4

\* -------------------------------------------------------------- the store
\* the tickers of the two tables, in index order
TickerSeq == <<"A", "B">>
Tickers == Range(TickerSeq)
\* the days predictions are made for, and the days prices are quoted on
PredictionDates == {1, 2}
PriceDates == {1, 2, 3}
\* the lasso penalties tried
Alphas == {1, 2}
PredictedValues == {1, 2}

\* the realised return of a (ticker, date): the same under every alpha
actuals(t, d) ==
    CASE t = "A" /\ d = 1 -> 1
      [] t = "A" /\ d = 2 -> 2
      [] t = "B" /\ d = 1 -> 2
      [] OTHER -> 3

PredictionKeys == Tickers \X PredictionDates \X Alphas

\* the predictions tables: one row for a (ticker, date, alpha)
PredictionTables ==
    UNION {
        {{[ticker |-> k[1], date |-> k[2], alpha |-> k[3],
           predicted |-> f[k], actuals |-> actuals(k[1], k[2])] : k \in K}
            : f \in [K -> PredictedValues]}
        : K \in {S \in SUBSET PredictionKeys : Cardinality(S) <= MaxRows}}

\* where the row of a table stands when the rows are sorted by their index
IndexRank(r) ==
    LET t == CHOOSE i \in DOMAIN TickerSeq : TickerSeq[i] = r.ticker
    IN  (t * 100 + r.date) * 100 + r.alpha

Reverse(s) == [i \in DOMAIN s |-> s[Len(s) + 1 - i]]

\* the row orders a table is stored in: by index, ascending or descending
RowOrders(T) ==
    LET byIndex == [i \in 1..Cardinality(T) |->
                      CHOOSE r \in T :
                          Cardinality({q \in T : IndexRank(q) <= IndexRank(r)}) = i]
    IN  {byIndex, Reverse(byIndex)}

\* the price tables: one row for a (ticker, date), at most one quote missing
PriceGrid == Tickers \X PriceDates
PriceTables == {PriceGrid} \cup {PriceGrid \ {k} : k \in PriceGrid}

\* ------------------------------------------------------ pieces of the code
\* 2 * scipy's rankdata: ties share the average rank
rankdata(col) ==
    [i \in DOMAIN col |->
        2 * Cardinality({j \in DOMAIN col : col[j] < col[i]})
          + Cardinality({j \in DOMAIN col : col[j] = col[i]}) + 1]

RECURSIVE SumSeq(_)
SumSeq(s) == IF s = <<>> THEN 0 ELSE Head(s) + SumSeq(Tail(s))

\* spearmanr(a, b)[0]: Pearson's r of the ranks, kept as <<c, v>> for c / sqrt(v);
\* nan when a column is constant or has fewer than two values
spearmanr(a, b) ==
    LET n  == Len(a)
        ra == rankdata(a)
        rb == rankdata(b)
        sa == SumSeq(ra)
        sb == SumSeq(rb)
        c  == n * SumSeq([i \in 1..n |-> ra[i] * rb[i]]) - sa * sb
        va == n * SumSeq([i \in 1..n |-> ra[i] * ra[i]]) - sa * sa
        vb == n * SumSeq([i \in 1..n |-> rb[i] * rb[i]]) - sb * sb
    IN  IF va = 0 \/ vb = 0 THEN NaN ELSE <<c, va * vb>>

\* r1 > r2 for two correlations that are not nan
Greater(r1, r2) ==
    IF r1[1] >= 0
    THEN r2[1] < 0 \/ r1[1] * r1[1] * r2[2] > r2[1] * r2[1] * r1[2]
    ELSE r2[1] < 0 /\ r1[1] * r1[1] * r2[2] < r2[1] * r2[1] * r1[2]

RECURSIVE Ascending(_)
Ascending(S) ==
    IF S = {} THEN <<>>
    ELSE LET m == CHOOSE x \in S : \A y \in S : x <= y
         IN  <<m>> \o Ascending(S \ {m})

\* pandas' unique(): the values in the order they first appear
RECURSIVE unique(_)
unique(s) ==
    IF s = <<>> THEN <<>>
    ELSE <<Head(s)>> \o SelectSeq(unique(Tail(s)), LAMBDA x : x # Head(s))

Column(rows, c) == [i \in DOMAIN rows |-> rows[i][c]]

\* groupby('alpha') with sort=False: the group keys as they first appear
groupbyUnsorted(rows) == unique(Column(rows, "alpha"))

\* groupby('alpha'): the group keys, sorted
groupby(rows) == Ascending(Range(Column(rows, "alpha")))

\* .apply(lambda x: spearmanr(x.actuals, x.predicted)[0]): a value per group
apply(keys, rows) ==
    [i \in DOMAIN keys |->
        LET x == SelectSeq(rows, LAMBDA r : r.alpha = keys[i])
        IN  [alpha |-> keys[i],
             r |-> spearmanr(Column(x, "actuals"), Column(x, "predicted"))]]

\* Series.idxmax(): the label of the first largest value, nan ones skipped;
\* nan when there is none
RECURSIVE idxmaxFrom(_, _)
idxmaxFrom(series, best) ==
    IF series = <<>> THEN best
    ELSE LET h == Head(series)
         IN  idxmaxFrom(Tail(series),
                        IF h.r # NaN /\ (best = NaN \/ Greater(h.r, best[1].r))
                        THEN <<h>> ELSE best)

idxmax(series) ==
    LET best == idxmaxFrom(series, NaN)
    IN  IF best = NaN THEN NaN ELSE <<best[1].alpha>>

\* prices.sort_index(): the rows by ticker, then by date
RECURSIVE sort_index(_, _)
sort_index(P, ts) ==
    IF ts = <<>> THEN <<>>
    ELSE LET ds == Ascending({k[2] : k \in {q \in P : q[1] = Head(ts)}})
         IN  [i \in DOMAIN ds |-> <<Head(ts), ds[i]>>] \o sort_index(P, Tail(ts))

\* (dates.max() + pd.DateOffset(1)).strftime('%Y-%m-%d'): the day after
DateOffset(d, n) == d + n

\* .loc[idx[tickers, start:stop], :]: a label slice keeps both its ends
loc(rows, tickers, start, stop) ==
    SelectSeq(rows, LAMBDA k : k[1] \in Range(tickers) /\ start <= k[2] /\ k[2] <= stop)

\* the rows of left on the index entry k of right
Matches(left, k) == SelectSeq(left, LAMBDA r : r.ticker = k[1] /\ r.date = k[2])

\* join(how='inner'): the index entries both frames have
RECURSIVE join_inner(_, _)
join_inner(left, right) ==
    IF right = <<>> THEN <<>>
    ELSE LET k == Head(right)
             m == Matches(left, k)
         IN  [i \in DOMAIN m |-> [ticker |-> k[1], date |-> k[2], predicted |-> <<m[i].predicted>>]]
             \o join_inner(left, Tail(right))

\* predictions.join(prices, how='right'): every index entry of prices, with
\* the predicted of each row of predictions on it, null when there is none
RECURSIVE join_right(_, _)
join_right(left, right) ==
    IF right = <<>> THEN <<>>
    ELSE LET k == Head(right)
             m == Matches(left, k)
         IN  (IF m = <<>>
              THEN <<[ticker |-> k[1], date |-> k[2], predicted |-> NaN]>>
              ELSE [i \in DOMAIN m |-> [ticker |-> k[1], date |-> k[2], predicted |-> <<m[i].predicted>>]])
             \o join_right(left, Tail(right))

\* ------------------------------------------------------------ the function
\* the two tables are in the store and the function is called
JoinInit ==
    /\ predictions \in PredictionTables
    /\ prices \in PriceTables
    /\ jpc = "called"
    /\ best_alpha = NaN
    /\ selected = <<>> /\ restricted = <<>> /\ result = <<>>
    /\ error = ""
    /\ RebalancerParked /\ ExtractorParked /\ BatchParked /\ LateParked

\* get_backtest_data, the table holding its rows in the order rows; with no
\* correlation to take the largest of, the date range of no rows is NaT and
\* strftime raises
get_backtest_data ==
    /\ jpc = "called"
    /\ \E rows \in RowOrders(predictions) :
         /\ best_alpha' = idxmax(apply(groupby(rows), rows))
         /\ IF best_alpha' = NaN
            THEN /\ selected' = <<>> /\ restricted' = <<>> /\ result' = <<>>
                 /\ error' = "ValueError"
                 /\ jpc' = "raised"
            ELSE /\ selected' = SelectSeq(rows, LAMBDA r : r.alpha = best_alpha'[1])
                 /\ \E dates \in {Range(Column(selected', "date"))} :
                      restricted' =
                          loc(sort_index(prices, TickerSeq),
                              unique(Column(selected', "ticker")),
                              CHOOSE d \in dates : \A e \in dates : d <= e,
                              DateOffset(CHOOSE d \in dates : \A e \in dates : d >= e, 1))
                 /\ result' = join_right(selected', restricted')
                 /\ error' = ""
                 /\ jpc' = "returned"
    /\ UNCHANGED <<predictions, prices>>
    /\ UNCHANGED <<vars, extractVars, batchVars, lateVars>>

JoinNext == get_backtest_data

JoinSpec == JoinInit /\ [][JoinNext]_allVars

JoinTypeOK ==
    /\ jpc \in {"called", "returned", "raised"}
    /\ best_alpha \in {NaN} \cup {<<a>> : a \in Alphas}

\* ------------------------------------------------- notions of the claims
\* the rows of the predictions table with the selected hyperparameter value
SelectedRows == {r \in predictions : <<r.alpha>> = best_alpha}

\* the result rows on the index entry (t, d)
ResultRows(t, d) == {i \in DOMAIN result : result[i].ticker = t /\ result[i].date = d}

\* the rank correlation of the rows of the table with hyperparameter value a
Correlation(a) ==
    LET rows == CHOOSE s \in RowOrders({r \in predictions : r.alpha = a}) : TRUE
    IN  spearmanr(Column(rows, "actuals"), Column(rows, "predicted"))

\* of the pairs (value, correlation) cs, the values no other value exceeds
MaximizersOf(cs) ==
    {c[1] : c \in {c \in cs :
                      /\ c[2] # NaN
                      /\ \A b \in cs : b[2] # NaN => ~Greater(b[2], c[2])}}

\* the hyperparameter values whose rank correlation no other value exceeds
Maximizers == MaximizersOf({<<a, Correlation(a)>> : a \in {r.alpha : r \in predictions}})

SelectedDates == {r.date : r \in SelectedRows}

\* ------------------------------------------------------------------ C12
\* C12: the result has exactly one row for every (instrument, date) of the
\* restricted price table and no other row; a row's prediction is the one
\* of the selected hyperparameter value for that instrument and date when
\* there is one and null otherwise; a selected prediction without a price
\* row produces no result row (right join).
C12_RightJoin ==
    jpc = "returned" =>
        /\ Range(restricted) \subseteq prices
        /\ \A k \in Range(restricted) : Cardinality(ResultRows(k[1], k[2])) = 1
        /\ \A i \in DOMAIN result :
              /\ <<result[i].ticker, result[i].date>> \in Range(restricted)
              /\ LET here == {r \in SelectedRows :
                                r.ticker = result[i].ticker /\ r.date = result[i].date}
                 IN  IF here = {} THEN result[i].predicted = NaN
                     ELSE \E r \in here : result[i].predicted = <<r.predicted>>
        /\ \A r \in SelectedRows :
              <<r.ticker, r.date>> \notin prices => ResultRows(r.ticker, r.date) = {}

\* a result with a null prediction, one with a prediction, and a selected
\* prediction that has no price row
C12_Witness ==
    /\ jpc = "returned"
    /\ \E i \in DOMAIN result : result[i].predicted = NaN
    /\ \E i \in DOMAIN result : result[i].predicted # NaN
    /\ \E r \in SelectedRows : <<r.ticker, r.date>> \notin prices

\* ------------------------------------------------------------------ C13
\* C13: only the rows with the hyperparameter value that maximizes the rank
\* correlation are kept, and the price table is restricted to their
\* instruments and their date range: every result row's instrument has a
\* selected prediction and every result row's date lies between the
\* earliest and the latest selected prediction date.
C13_RestrictedToPredictions ==
    jpc = "returned" =>
        /\ best_alpha # NaN /\ best_alpha[1] \in Maximizers
        /\ Range(selected) = SelectedRows
        /\ \A i \in DOMAIN result :
              /\ \E r \in SelectedRows : r.ticker = result[i].ticker
              /\ \E d \in SelectedDates : d <= result[i].date
              /\ \E d \in SelectedDates : result[i].date <= d

\* ------------------------------------------------------------------ C14
\* C14: with no predictions for any hyperparameter value the Joiner fails
\* with an explicit NoPredictionsError and produces no result table.
C14_NoPredictionsError ==
    (predictions = {} /\ jpc # "called") =>
        /\ jpc = "raised"
        /\ error = "NoPredictionsError"
        /\ result = <<>>

\* ------------------------------------------------------------------ C15
\* C15: the selected hyperparameter value is a function of the contents of
\* the predictions table, not of its row order: of the values that reach
\* the largest rank correlation, the smallest is selected.
C15_TieBreakByContents ==
    jpc = "returned" =>
        \E M \in {Maximizers} :
            /\ M # {}
            /\ best_alpha = <<CHOOSE a \in M : \A b \in M : a <= b>>

\* two values tie for the largest rank correlation, and the table was read
\* in descending index order, the larger value first
C15_Witness ==
    /\ jpc = "returned"
    /\ Cardinality(Maximizers) >= 2
    /\ best_alpha = <<1>>
    /\ Len(selected) >= 2
    /\ IndexRank(selected[1]) > IndexRank(selected[2])
    /\ \E r \in predictions :
          /\ r.alpha = 2
          /\ \A q \in predictions : IndexRank(q) <= IndexRank(r)

\* ====================================================== Identify Sections
\* the section extractor of sec_preprocessing.ipynb, on one filing; a string
\* is the sequence of its characters
\* ---------------------------------------------------------------- bound
\* most sections of a filing
MaxSections == 3

\* ------------------------------------------------------------ the filings
\* the section texts a filing is made of, as they stand between the
\* section marks: item 1 three times (two texts of one length), item 1a,
\* item 7 with no text, a header with no code, a code of punctuation only,
\* and sections the loop passes over
SectionTexts ==
    { <<"i","t","e","m"," ","1","."," ","a","a"," ","b","b">>,
      <<"i","t","e","m"," ","1",":"," "," ","c">>,
      <<"I","T","E","M"," ","1",","," ","d","d","\n","E","E">>,
      <<"i","t","e","m"," ","1","a","."," ","f","f","f","f"," ","g","g">>,
      <<"i","t","e","m"," ","7">>,
      <<"i","t","e","m"," ">>,
      <<"i","t","e","m"," ","."," ","h">>,
      <<"i","t","e","m","\n","1"," ","k","k","k","k","k","k">>,
      <<" ","i","t","e","m"," ","1"," ","l","l","l","l","l","l">>,
      <<"p","a","r","t"," ","i"," ","m","m">> }

\* sep.join(strings)
RECURSIVE join(_, _)
join(sep, strings) ==
    IF strings = <<>> THEN <<>>
    ELSE IF Len(strings) = 1 THEN Head(strings)
    ELSE Head(strings) \o sep \o join(sep, Tail(strings))

RECURSIVE SeqsUpTo(_, _)
SeqsUpTo(S, n) ==
    IF n = 0 THEN {<<>>}
    ELSE LET shorter == SeqsUpTo(S, n - 1)
         IN  shorter \cup {Append(s, x) : s \in {q \in shorter : Len(q) = n - 1}, x \in S}

\* the filings: up to MaxSections sections with the section mark between
Filings == {join(<<"°">>, ss) : ss \in SeqsUpTo(SectionTexts, MaxSections)}

\* ------------------------------------------------------ pieces of the code
\* str.lower()
lower(s) ==
    [i \in DOMAIN s |->
        CASE s[i] = "I" -> "i" [] s[i] = "T" -> "t" [] s[i] = "E" -> "e"
          [] s[i] = "M" -> "m" [] OTHER -> s[i]]

\* str.split(sep): the pieces between the separators, empty ones kept
RECURSIVE split_sep(_, _, _)
split_sep(s, sep, piece) ==
    IF s = <<>> THEN <<piece>>
    ELSE IF Head(s) = sep THEN <<piece>> \o split_sep(Tail(s), sep, <<>>)
    ELSE split_sep(Tail(s), sep, Append(piece, Head(s)))

Whitespace == {" ", "\n"}

\* str.split(): the runs of characters that are not whitespace
RECURSIVE split(_, _)
split(s, token) ==
    IF s = <<>> THEN (IF token = <<>> THEN <<>> ELSE <<token>>)
    ELSE IF Head(s) \in Whitespace
         THEN (IF token = <<>> THEN <<>> ELSE <<token>>) \o split(Tail(s), <<>>)
         ELSE split(Tail(s), Append(token, Head(s)))

\* str.startswith(prefix)
startswith(s, prefix) == Len(s) >= Len(prefix) /\ SubSeq(s, 1, Len(prefix)) = prefix

\* str.replace(c, '')
replace(s, c) == SelectSeq(s, LAMBDA x : x # c)

\* line 213 without the replace of ':'
item_of_keeping_colon(section) == replace(replace(split(section, <<>>)[2], "."), ",")

\* line 213: the second token without '.', ':' and ','
item_of(section) == replace(replace(replace(split(section, <<>>)[2], "."), ":"), ",")

\* line 214: the tokens after the second, a blank between
text_of(section) ==
    LET tokens == split(section, <<>>)
    IN  join(<<" ">>, SubSeq(tokens, 3, Len(tokens)))

\* items.get(item): None is <<>>, a text t is <<t>>
get(d, item) ==
    IF \E i \in DOMAIN d : d[i].item = item
    THEN <<d[CHOOSE i \in DOMAIN d : d[i].item = item].text>>
    ELSE <<>>

\* items[item] = text: a new key goes last, a known key keeps its place
set(d, item, text) ==
    IF \E i \in DOMAIN d : d[i].item = item
    THEN [i \in DOMAIN d |-> IF d[i].item = item THEN [item |-> item, text |-> text] ELSE d[i]]
    ELSE Append(d, [item |-> item, text |-> text])

\* line 215 with the later text always taken
is_longer_or_later(old, text) == TRUE

\* line 215: no text yet for the code, or a shorter one
is_longer(old, text) == old = <<>> \/ Len(old[1]) < Len(text)

\* --------------------------------------------------------------- the loop
\* a filing of the directory is taken up
ExtractInit ==
    /\ filing \in Filings
    /\ parts = <<>>
    /\ s_i = 0
    /\ items = <<>>
    /\ log = <<>> /\ txt = <<>>
    /\ epc = "start"
    /\ RebalancerParked /\ JoinerParked /\ BatchParked /\ LateParked

\* line 210: filing.read_text().lower().split on the section mark
read_text ==
    /\ epc = "start"
    /\ parts' = split_sep(lower(filing), "°", <<>>)
    /\ s_i' = 1
    /\ epc' = "loop"
    /\ UNCHANGED <<filing, items, log, txt>>
    /\ UNCHANGED <<vars, joinVars, batchVars, lateVars>>

\* lines 210-216: the body of the loop on the section the loop is at;
\* nothing is reported for a section that is passed over
ForSection ==
    /\ epc = "loop"
    /\ s_i <= Len(parts)
    /\ \E section \in {parts[s_i]} :
         IF startswith(section, <<"i","t","e","m"," ">>) /\ Len(split(section, <<>>)) > 1
         THEN \E item \in {item_of(section)}, text \in {text_of(section)} :
                 items' = IF is_longer(get(items, item), text)
                          THEN set(items, item, text)
                          ELSE items
         ELSE items' = items
    /\ s_i' = s_i + 1
    /\ UNCHANGED <<filing, parts, log, txt, epc>>
    /\ UNCHANGED <<vars, joinVars, batchVars, lateVars>>

\* lines 217-220: pd.Series(items).reset_index() written as the sections csv
to_csv ==
    /\ epc = "loop"
    /\ s_i > Len(parts)
    /\ txt' = items
    /\ epc' = "written"
    /\ UNCHANGED <<filing, parts, s_i, items, log>>
    /\ UNCHANGED <<vars, joinVars, batchVars, lateVars>>

ExtractNext == read_text \/ ForSection \/ to_csv

ExtractSpec == ExtractInit /\ [][ExtractNext]_allVars

ExtractTypeOK ==
    /\ epc \in {"start", "loop", "written"}
    /\ s_i \in 0..(Len(parts) + 1)
    /\ \A i \in DOMAIN items : DOMAIN items[i] = {"item", "text"}

\* ------------------------------------------------- notions of the claims
\* the section starts with the marker 'item '
HasMarker(section) == startswith(section, <<"i","t","e","m"," ">>)

\* the section starts with the marker and has a code token after it
IsHeader(section) == HasMarker(section) /\ Len(split(section, <<>>)) >= 2

\* the section starts with the marker but carries no code token
Malformed(section) == HasMarker(section) /\ Len(split(section, <<>>)) < 2

\* a code token without the punctuation '.', ':' and ','
Normalized(token) == SelectSeq(token, LAMBDA c : c \notin {".", ":", ","})

CodeToken(section) == split(section, <<>>)[2]

\* the sections of the filing that yield the item code
Yielding(code) ==
    {j \in DOMAIN parts : IsHeader(parts[j]) /\ Normalized(CodeToken(parts[j])) = code}

\* ------------------------------------------------------------------ C16
\* C16: for every item code the text written is one of the texts of the
\* filing's sections that yield the code, and none of them is longer: a
\* later shorter text never replaces an earlier longer one and a later
\* longer text always replaces an earlier shorter one, whatever the order.
C16_LongestTextRetained ==
    epc = "written" =>
        \A i \in DOMAIN txt :
            /\ \E j \in Yielding(txt[i].item) : text_of(parts[j]) = txt[i].text
            /\ \A j \in Yielding(txt[i].item) : Len(text_of(parts[j])) <= Len(txt[i].text)

\* a code with a longer text before a shorter one, and a code with a shorter
\* text before a longer one
C16_Witness ==
    /\ epc = "written"
    /\ \E i \in DOMAIN txt :
          \E j, k \in Yielding(txt[i].item) :
              j < k /\ Len(text_of(parts[j])) > Len(text_of(parts[k]))
    /\ \E i \in DOMAIN txt :
          \E j, k \in Yielding(txt[i].item) :
              j < k /\ Len(text_of(parts[j])) < Len(text_of(parts[k]))

\* ------------------------------------------------------------------ C17
\* C17: the rows written for a filing have pairwise distinct item codes,
\* headers whose code tokens differ only by '.', ':' or ',' give one code,
\* and the number of rows is the number of distinct normalized codes among
\* the sections that start with 'item '.
C17_OneRowPerCode ==
    epc = "written" =>
        \E codes \in {{Normalized(CodeToken(parts[j])) : j \in {k \in DOMAIN parts : IsHeader(parts[k])}}} :
            /\ \A i, j \in DOMAIN txt : txt[i].item = txt[j].item => i = j
            /\ {txt[i].item : i \in DOMAIN txt} = codes
            /\ Len(txt) = Cardinality(codes)

\* two headers with code tokens that differ by punctuation only share a row,
\* and another code has its own row
C17_Witness ==
    /\ epc = "written"
    /\ Len(txt) >= 2
    /\ \E j, k \in DOMAIN parts :
          /\ IsHeader(parts[j]) /\ IsHeader(parts[k])
          /\ CodeToken(parts[j]) # CodeToken(parts[k])
          /\ Normalized(CodeToken(parts[j])) = Normalized(CodeToken(parts[k]))
          /\ \E t \in {CodeToken(parts[j]), CodeToken(parts[k])} : \E c \in Range(t) : c = ":"

\* ------------------------------------------------------------------ C19
\* C19: a section that starts with 'item ' but carries no code token is a
\* malformed header: the loop skips it and logs it, it adds no row and
\* changes the text of no item code, and the loop goes on.
C19_MalformedSkippedAndLogged ==
    [][(epc = "loop" /\ s_i <= Len(parts) /\ Malformed(parts[s_i])) =>
          /\ items' = items
          /\ epc' = "loop" /\ s_i' = s_i + 1
          /\ log' = Append(log, s_i)]_allVars

\* ================================================ the passes over the files
\* the cells of sec_preprocessing.ipynb that read and write the directories:
\* Identify Sections, Parse Sections, the unigrams and create_ngrams; a cell
\* can be run again once the cell before it has ended
\* ---------------------------------------------------------------- bound
\* most cells run in a session
MaxPasses == 3

\* ------------------------------------------------------------- the files
\* the stems of the files that can be in filing_path
FilingStems == {"1", "2", "x"}

\* int(stem) succeeds
Numeric(stem) == stem \in {"1", "2"}

\* create_ngrams(max_length=3)
max_length == 3

\* the output files: sections_path / stem.csv, clean_path / stem.csv,
\* ngram_path / ngrams_n.txt, the two tables of stats_path, the parquet file
Outputs ==
    {<<"sections", f>> : f \in FilingStems} \cup {<<"clean", f>> : f \in FilingStems}
        \cup {<<"ngrams", n>> : n \in 1..max_length}
        \cup {<<"stats", "selected_sentences">>, <<"stats", "sections_vocab">>,
              <<"sec", "ngrams.parquet">>}

\* path.exists()
exists(o) == written[o] > 0

\* to_csv / write_text / to_parquet on the files os
write(os) == [o \in Outputs |-> IF o \in os THEN written[o] + 1 ELSE written[o]]

\* the directories hold the filings and no output yet
BatchInit ==
    /\ filings \in SUBSET FilingStems /\ filings # {}
    /\ undecodable \in SUBSET filings
    /\ oversized \in SUBSET (filings \ undecodable)
    /\ written = [o \in Outputs |-> 0]
    /\ bpc = "idle"
    /\ todo = {}
    /\ n_level = 0
    /\ ended = <<>>
    /\ passes = 0
    /\ interrupted = {}
    /\ RebalancerParked /\ JoinerParked /\ ExtractorParked /\ LateParked

\* an exception leaves the cell
raise(pass, exception) ==
    /\ bpc' = "idle"
    /\ todo' = {}
    /\ ended' = <<pass, exception>>

\* ------------------------------------------------------ Identify Sections
\* line 205: the loop starts on filing_path.glob('*.txt')
StartIdentify ==
    /\ bpc = "idle" /\ passes < MaxPasses
    /\ bpc' = "identify"
    /\ todo' = filings
    /\ passes' = passes + 1
    /\ ended' = <<>>
    /\ UNCHANGED <<filings, undecodable, oversized, interrupted, written, n_level>>
    /\ UNCHANGED <<vars, joinVars, extractVars, lateVars>>

\* lines 206-220 on the filing glob yields next: int(filing.stem) and
\* read_text() raise for a stem that is no number and for bytes that do not
\* decode; nothing catches them; the csv is written whether it exists or not
IdentifyFile ==
    /\ bpc = "identify"
    /\ \E f \in todo :
         IF ~Numeric(f)
         THEN raise("identify", "ValueError") /\ UNCHANGED written
         ELSE IF f \in undecodable
         THEN raise("identify", "UnicodeDecodeError") /\ UNCHANGED written
         ELSE /\ written' = write({<<"sections", f>>})
              /\ todo' = todo \ {f}
              /\ UNCHANGED <<bpc, ended>>
    /\ UNCHANGED <<filings, undecodable, oversized, interrupted, n_level, passes>>
    /\ UNCHANGED <<vars, joinVars, extractVars, lateVars>>

\* glob is exhausted
EndIdentify ==
    /\ bpc = "identify" /\ todo = {}
    /\ bpc' = "idle"
    /\ ended' = <<"identify", "done">>
    /\ UNCHANGED <<filings, undecodable, oversized, interrupted, written, todo, n_level, passes>>
    /\ UNCHANGED <<vars, joinVars, extractVars, lateVars>>

\* --------------------------------------------------------- Parse Sections
\* line 314: the loop starts on sections_path.glob('*.csv')
StartParse ==
    /\ bpc = "idle" /\ passes < MaxPasses
    /\ bpc' = "parse"
    /\ todo' = {f \in FilingStems : exists(<<"sections", f>>)}
    /\ passes' = passes + 1
    /\ ended' = <<>>
    /\ UNCHANGED <<filings, undecodable, oversized, interrupted, written, n_level>>
    /\ UNCHANGED <<vars, joinVars, extractVars, lateVars>>

\* variant: without the test clean_file.exists() of lines 317-318
ParseFileAgain ==
    /\ bpc = "parse"
    /\ \E f \in todo :
         IF ~Numeric(f)
         THEN raise("parse", "ValueError") /\ UNCHANGED written
         ELSE IF f \in oversized
         THEN raise("parse", "ValueError") /\ UNCHANGED written
         ELSE /\ written' = write({<<"clean", f>>})
              /\ todo' = todo \ {f}
              /\ UNCHANGED <<bpc, ended>>
    /\ UNCHANGED <<filings, undecodable, oversized, interrupted, n_level, passes>>
    /\ UNCHANGED <<vars, joinVars, extractVars, lateVars>>

\* lines 315-349 on the csv glob yields next: a csv that has its clean file
\* is passed over; nlp(text) raises for a text longer than nlp.max_length
ParseFile ==
    /\ bpc = "parse"
    /\ \E f \in todo :
         IF ~Numeric(f)
         THEN raise("parse", "ValueError") /\ UNCHANGED written
         ELSE IF exists(<<"clean", f>>)
         THEN todo' = todo \ {f} /\ UNCHANGED <<written, bpc, ended>>
         ELSE IF f \in oversized
         THEN raise("parse", "ValueError") /\ UNCHANGED written
         ELSE /\ written' = write({<<"clean", f>>})
              /\ todo' = todo \ {f}
              /\ UNCHANGED <<bpc, ended>>
    /\ UNCHANGED <<filings, undecodable, oversized, interrupted, n_level, passes>>
    /\ UNCHANGED <<vars, joinVars, extractVars, lateVars>>

\* the kernel is interrupted between two documents of the loop of line 314:
\* KeyboardInterrupt leaves the cell, the clean files written so far stay
Interrupt ==
    /\ bpc = "parse"
    /\ raise("parse", "KeyboardInterrupt")
    /\ interrupted' = interrupted \cup {f \in FilingStems : exists(<<"clean", f>>)}
    /\ UNCHANGED <<filings, undecodable, oversized, written, n_level, passes>>
    /\ UNCHANGED <<vars, joinVars, extractVars, lateVars>>

\* glob is exhausted
EndParse ==
    /\ bpc = "parse" /\ todo = {}
    /\ bpc' = "idle"
    /\ ended' = <<"parse", "done">>
    /\ UNCHANGED <<filings, undecodable, oversized, interrupted, written, todo, n_level, passes>>
    /\ UNCHANGED <<vars, joinVars, extractVars, lateVars>>

\* --------------------------------------------------------------- unigrams
\* lines 439-443: create_unigrams() runs, and writes its three files, only
\* when ngrams_1.txt does not exist; else the file is read
unigrams_cell ==
    /\ bpc = "idle" /\ passes < MaxPasses
    /\ written' = IF exists(<<"ngrams", 1>>)
                  THEN written
                  ELSE write({<<"stats", "selected_sentences">>,
                              <<"stats", "sections_vocab">>, <<"ngrams", 1>>})
    /\ passes' = passes + 1
    /\ ended' = <<"unigrams", "done">>
    /\ UNCHANGED <<filings, undecodable, oversized, interrupted, bpc, todo, n_level>>
    /\ UNCHANGED <<vars, joinVars, extractVars, lateVars>>

\* ---------------------------------------------------------- create_ngrams
\* variant: a range that has its stop value
range_with_stop(start, stop) == start..stop

\* range(start, stop)
range(start, stop) == start..(stop - 1)

\* line 463: for n in range(2, max_length + 1)
create_ngrams ==
    /\ bpc = "idle" /\ passes < MaxPasses
    /\ bpc' = "ngrams"
    /\ n_level' = 2
    /\ passes' = passes + 1
    /\ ended' = <<>>
    /\ UNCHANGED <<filings, undecodable, oversized, interrupted, written, todo>>
    /\ UNCHANGED <<vars, joinVars, extractVars, lateVars>>

\* lines 464-481, pass n: LineSentence reads ngrams_{n-1}.txt and raises
\* when it is not there; ngrams_n.txt is written whether it exists or not
NgramPass ==
    /\ bpc = "ngrams" /\ n_level \in range(2, max_length + 1)
    /\ IF ~exists(<<"ngrams", n_level - 1>>)
       THEN raise("ngrams", "FileNotFoundError") /\ UNCHANGED <<written, n_level>>
       ELSE /\ written' = write({<<"ngrams", n_level>>})
            /\ n_level' = n_level + 1
            /\ UNCHANGED <<bpc, todo, ended>>
    /\ UNCHANGED <<filings, undecodable, oversized, interrupted, passes>>
    /\ UNCHANGED <<vars, joinVars, extractVars, lateVars>>

\* lines 483-487: after the last pass the phrase table is written
to_parquet ==
    /\ bpc = "ngrams" /\ n_level \notin range(2, max_length + 1)
    /\ written' = write({<<"sec", "ngrams.parquet">>})
    /\ bpc' = "idle"
    /\ ended' = <<"ngrams", "done">>
    /\ UNCHANGED <<filings, undecodable, oversized, interrupted, todo, n_level, passes>>
    /\ UNCHANGED <<vars, joinVars, extractVars, lateVars>>

BatchNext ==
    \/ StartIdentify \/ IdentifyFile \/ EndIdentify
    \/ StartParse \/ ParseFile \/ Interrupt \/ EndParse
    \/ unigrams_cell
    \/ create_ngrams \/ NgramPass \/ to_parquet

BatchSpec == BatchInit /\ [][BatchNext]_allVars

\* the interpreter goes on with the loop of a cell that runs
BatchFairSpec == BatchSpec /\ WF_allVars(NgramPass) /\ WF_allVars(to_parquet)

BatchTypeOK ==
    /\ bpc \in {"idle", "identify", "parse", "ngrams"}
    /\ todo \subseteq FilingStems
    /\ passes \in 0..MaxPasses
    /\ \A o \in Outputs : written[o] \in 0..MaxPasses
    /\ interrupted \subseteq FilingStems

\* ------------------------------------------------------------------ C18
\* the documents the pass that ended could process
Processable(pass) ==
    IF pass = "identify" THEN {f \in filings : Numeric(f) /\ f \notin undecodable}
    ELSE {f \in FilingStems : exists(<<"sections", f>>) /\ f \notin oversized}

\* C18: when a document of a batch pass cannot be processed (a corrupt file,
\* a file name that is no numeric id), the pass goes on: once the pass has
\* ended, and was not interrupted from outside, every other document has
\* its output file.
C18_FailuresIsolated ==
    /\ (ended # <<>> /\ ended[1] = "identify") =>
          \A f \in Processable("identify") : exists(<<"sections", f>>)
    /\ (ended # <<>> /\ ended[1] = "parse" /\ ended[2] # "KeyboardInterrupt") =>
          \A f \in Processable("parse") : exists(<<"clean", f>>)

\* ------------------------------------------------------------------ C20
\* C20: every write of the text pipeline (section csv, clean csv, unigram
\* corpus, n-gram levels) skips an output that exists: no step writes a
\* file that is already there, so a pass run again leaves the files as
\* they are.
C20_SkipIfOutputExists ==
    [][\A o \in Outputs : exists(o) => written'[o] = written[o]]_allVars

\* ------------------------------------------------------------------ C26
\* C26: next() runs on every bar, also when some feeds have no bar for the
\* current date (prenext calls next); only a feed whose bar is dated today
\* is a candidate, so a held instrument without a bar dated today is not in
\* longs or shorts and receives a liquidation instruction in that event.
C26_OnlyDatedAreCandidates ==
    pc = "ordered" =>
        \A t \in Names :
            ~bars[t].dated =>
                /\ t \notin Range(top_longs) \cup Range(top_shorts)
                /\ t \notin Range(longs) \cup Range(shorts)
                /\ t \in Held => t \in Liquidated

\* a held instrument shows the positive score of an older bar while the
\* event selects longs and shorts among the feeds dated today
C26_Witness ==
    /\ pc = "ordered"
    /\ longs # <<>> /\ shorts # <<>>
    /\ \E t \in Held :
          /\ ~bars[t].dated
          /\ IsUp(bars[t].predicted)
          /\ t \in Liquidated

\* ------------------------------------------------------------------ C27
\* C27: in every event the long set and the short set are disjoint and the
\* liquidation set is disjoint from both: an instrument receives at most
\* one instruction per event and is never targeted long and short.
C27_OneInstructionPerInstrument ==
    /\ Range(longs) \cap Range(shorts) = {}
    /\ Liquidated \cap (Range(longs) \cup Range(shorts)) = {}
    /\ \A i, j \in DOMAIN orders : orders[i].data = orders[j].data => i = j
    /\ \A i \in DOMAIN orders :
          /\ orders[i].target.n > 0 <=> orders[i].data \in Range(longs)
          /\ orders[i].target.n < 0 <=> orders[i].data \in Range(shorts)

\* an event with longs, shorts and liquidations at once
C27_Witness ==
    /\ pc = "ordered"
    /\ longs # <<>> /\ shorts # <<>>
    /\ Liquidated # {}
    /\ Len(orders) = Len(longs) + Len(shorts) + Cardinality(Liquidated)

\* ------------------------------------------------------------------ C21
\* C21: the tokenizing pass can be resumed. After any number of runs that
\* were interrupted between two documents, once a run completes every
\* section file has exactly one clean file, written once: a document that
\* has its clean file is never tokenized again, and the clean files are
\* those a single uninterrupted run writes, one per section file.
C21_Resumable ==
    /\ \A f \in FilingStems :
          /\ written[<<"clean", f>>] <= 1
          /\ exists(<<"clean", f>>) => exists(<<"sections", f>>)
    /\ ended = <<"parse", "done">> =>
          \A f \in FilingStems :
              exists(<<"sections", f>>) => written[<<"clean", f>>] = 1

\* a run has completed after an interrupted run: one clean file is from the
\* interrupted run, another from the run that completed
C21_Witness ==
    /\ ended = <<"parse", "done">>
    /\ \E f, g \in FilingStems :
          /\ f \in interrupted /\ written[<<"clean", f>>] = 1
          /\ g \notin interrupted /\ written[<<"clean", g>>] = 1

\* ------------------------------------------------------------------ C23
\* the levels written since the call of create_ngrams began
PassesDone == n_level - 2

\* C23: create_ngrams(max_length) makes exactly max_length - 1 passes, for
\* n = 2..max_length; pass n reads the corpus of level n-1 and writes the
\* corpus of level n before pass n+1 starts; after the last pass the call
\* ends, whatever the corpus of the last level holds.
C23_PassesBounded ==
    /\ [](bpc = "ngrams" =>
            /\ n_level \in 2..(max_length + 1)
            /\ PassesDone <= max_length - 1
            /\ \A k \in 2..(n_level - 1) :
                  exists(<<"ngrams", k>>) /\ exists(<<"ngrams", k - 1>>))
    /\ [](ended = <<"ngrams", "done">> =>
            /\ PassesDone = max_length - 1
            /\ \A k \in 1..max_length : exists(<<"ngrams", k>>))
    /\ [][\A k \in 2..max_length :
            written'[<<"ngrams", k>>] # written[<<"ngrams", k>>] =>
                /\ bpc = "ngrams" /\ n_level = k /\ n_level' = k + 1
                /\ exists(<<"ngrams", k - 1>>)
                /\ \A o \in Outputs \ {<<"ngrams", k>>} : written'[o] = written[o]]_allVars
    /\ (bpc = "ngrams") ~> (bpc = "idle")

\* the call has ended after pass 2 and pass 3, each of which wrote its level
C23_Witness ==
    /\ ended = <<"ngrams", "done">>
    /\ PassesDone = 2
    /\ written[<<"ngrams", 2>>] = 1 /\ written[<<"ngrams", 3>>] = 1
    /\ exists(<<"sec", "ngrams.parquet">>)

\* ===================================================== the pipeline variant
\* single_factor_zipline.ipynb: before_trading_start, rebalance, exec_trades,
\* and the engine that fills open orders on the bars between
\* ---------------------------------------------------------------- bound
\* most trading days of a run
MaxDays == 2

\* ------------------------------------------------------------ the assets
\* three assets of the universe, by sid
Assets == {1, 2, 3}

\* line 82
N_LONGS == 25
N_SHORTS == 25

\* pipeline_output('factor_pipeline'): the boolean columns longs and shorts
\* over the assets that pass the screen; bottom(N_LONGS) and top(N_SHORTS)
\* share assets when fewer than N_LONGS + N_SHORTS assets have a factor value
FactorData == [longs : SUBSET Assets, shorts : SUBSET Assets]

\* the amount that is target percent of the portfolio value, in lots of one
\* N-th of it: share prices and the portfolio value are taken as constant
target_amount(target) ==
    IF target.n > 0 THEN 1 ELSE IF target.n < 0 THEN -1 ELSE 0

\* variant: without the test `not get_open_orders(asset)`
can_order_if_tradable(asset, blotter) == asset \in tradable

\* line 127: data.can_trade(asset) and not get_open_orders(asset)
can_order(asset, blotter) == asset \in tradable /\ blotter[asset] = <<>>

\* order_target_percent(asset, target): orders the difference between the
\* target amount and the amount held; no order when there is none
order_target_percent(asset, target, st) ==
    LET amount == target_amount(target) - portfolio[asset]
    IN  [blotter   |-> IF amount = 0 THEN st.blotter
                       ELSE [st.blotter EXCEPT ![asset] = Append(@, amount)],
         requested |-> Append(st.requested, <<asset, target>>)]

RECURSIVE exec_trades(_, _, _)
\* lines 124-128: the loop over assets, st the blotter and the calls so far
exec_trades(assets, target_percent, st) ==
    IF assets = <<>> THEN st
    ELSE exec_trades(Tail(assets), target_percent,
                     IF can_order(Head(assets), st.blotter)
                     THEN order_target_percent(Head(assets), target_percent, st)
                     ELSE st)

\* context.portfolio.positions.keys()
positions_keys == {a \in Assets : portfolio[a] # 0}

\* ------------------------------------------------------------ the algorithm
ZipInit ==
    /\ portfolio = [a \in Assets |-> 0]
    /\ open_orders = [a \in Assets |-> <<>>]
    /\ tradable = {}
    /\ factor_data = [longs |-> {}, shorts |-> {}]
    /\ divest = {}
    /\ requested = <<>>
    /\ zpc = "closed"
    /\ days = 0
    /\ RebalancerParked /\ JoinerParked /\ ExtractorParked /\ BatchParked
    /\ TokenParked /\ PhraseParked

\* lines 178-180, before the open of a trading day: the pipeline output of
\* the day
before_trading_start ==
    /\ zpc = "closed" /\ days < MaxDays
    /\ factor_data' \in FactorData
    /\ zpc' = "before"
    /\ days' = days + 1
    /\ UNCHANGED <<portfolio, open_orders, tradable, divest, requested>>
    /\ UNCHANGED <<vars, joinVars, extractVars, batchVars, tokenVars, phraseVars>>

\* the engine on the bar, before the scheduled functions: the bar decides
\* what can trade; open orders of assets that trade are filled, or stay open
\* when the volume is short
every_bar ==
    /\ zpc = "before"
    /\ tradable' \in SUBSET Assets
    /\ \E filled \in SUBSET {a \in tradable' : open_orders[a] # <<>>} :
          /\ portfolio' = [a \in Assets |->
                              IF a \in filled THEN portfolio[a] + Head(open_orders[a])
                              ELSE portfolio[a]]
          /\ open_orders' = [a \in Assets |->
                              IF a \in filled THEN Tail(open_orders[a])
                              ELSE open_orders[a]]
    /\ zpc' = "bar"
    /\ UNCHANGED <<factor_data, divest, requested, days>>
    /\ UNCHANGED <<vars, joinVars, extractVars, batchVars, tokenVars, phraseVars>>

\* lines 137-151, on the days the schedule of line 164 names: divest is a
\* set and iterates in any order, longs and shorts in the order of the index
rebalance ==
    /\ zpc = "bar"
    /\ divest' = positions_keys \ (factor_data.longs \cup factor_data.shorts)
    /\ \E order \in IterOrders(divest') :
          \E st \in {exec_trades(Ascending(factor_data.shorts), Frac(-1, N_SHORTS),
                        exec_trades(Ascending(factor_data.longs), Frac(1, N_LONGS),
                            exec_trades(order, Zero,
                                [blotter |-> open_orders, requested |-> <<>>])))} :
              /\ open_orders' = st.blotter
              /\ requested' = st.requested
    /\ zpc' = "rebalanced"
    /\ UNCHANGED <<portfolio, tradable, factor_data, days>>
    /\ UNCHANGED <<vars, joinVars, extractVars, batchVars, tokenVars, phraseVars>>

\* the trading day ends, with or without a rebalance: the bar is over, the
\* locals of rebalance are gone, and the pipeline output is not read again
\* before line 180 replaces it
day_end ==
    /\ zpc \in {"bar", "rebalanced"}
    /\ tradable' = {}
    /\ factor_data' = [longs |-> {}, shorts |-> {}]
    /\ divest' = {} /\ requested' = <<>>
    /\ zpc' = "closed"
    /\ UNCHANGED <<portfolio, open_orders, days>>
    /\ UNCHANGED <<vars, joinVars, extractVars, batchVars, tokenVars, phraseVars>>

ZipNext == before_trading_start \/ every_bar \/ rebalance \/ day_end

ZipSpec == ZipInit /\ [][ZipNext]_allVars

ZipTypeOK ==
    /\ zpc \in {"closed", "before", "bar", "rebalanced"}
    /\ portfolio \in [Assets -> -2..2]
    /\ factor_data \in FactorData
    /\ tradable \subseteq Assets /\ divest \subseteq Assets
    /\ days \in 0..MaxDays

\* ------------------------------------------------------------------ C25
\* the place of a target in the order of the three calls of exec_trades
CallOf(target) == IF target.n = 0 THEN 1 ELSE IF target.n > 0 THEN 2 ELSE 3

\* C25: at each rebalance divest is the held assets minus (longs + shorts);
\* orders are requested at target 0 for divest, then 1/N_LONGS for longs,
\* then -1/N_SHORTS for shorts, in that order; an order is requested for an
\* asset only if it can trade and has no open order, so no asset ever has
\* two open orders, and a held asset that cannot trade or has an open order
\* is not divested in that event.
C25_ExecTrades ==
    /\ [](\A a \in Assets : Len(open_orders[a]) <= 1)
    /\ [][(zpc = "bar" /\ zpc' = "rebalanced") =>
            /\ divest' = positions_keys \ (factor_data.longs \cup factor_data.shorts)
            /\ \A i \in DOMAIN requested' :
                  /\ requested'[i][1] \in tradable
                  /\ open_orders[requested'[i][1]] = <<>>
                  /\ requested'[i][2] \in {Zero, Frac(1, N_LONGS), Frac(-1, N_SHORTS)}
                  /\ requested'[i][2] = Zero => requested'[i][1] \in divest'
                  /\ requested'[i][2].n > 0 => requested'[i][1] \in factor_data.longs
                  /\ requested'[i][2].n < 0 => requested'[i][1] \in factor_data.shorts
                  /\ \A j \in DOMAIN requested' :
                        i < j => CallOf(requested'[i][2]) <= CallOf(requested'[j][2])
            /\ \A a \in divest' :
                  (a \notin tradable \/ open_orders[a] # <<>>) =>
                      /\ open_orders'[a] = open_orders[a]
                      /\ \A i \in DOMAIN requested' : requested'[i][1] # a
            /\ \A a \in Assets :
                  (a \in tradable /\ open_orders[a] = <<>>
                     /\ a \in divest' \cup factor_data.longs \cup factor_data.shorts) =>
                      \E i \in DOMAIN requested' : requested'[i][1] = a]_allVars

\* a rebalance has requested orders for a divested asset, a long and a short,
\* each of which can trade, and each now has its one open order
C25_Witness ==
    /\ zpc = "rebalanced"
    /\ \E i, j, k \in DOMAIN requested :
          /\ requested[i][2] = Zero
          /\ requested[j][2] = Frac(1, N_LONGS)
          /\ requested[k][2] = Frac(-1, N_SHORTS)
    /\ \A a \in Assets : a \in tradable /\ Len(open_orders[a]) = 1

\* ======================================================= the tokenizing loop
\* the body of the Parse Sections loop on one sections csv (lines 319-349)
\* ---------------------------------------------------------------- bound
\* most tokens of a sentence
MaxTokens == 2

\* ------------------------------------------------------------- the input
\* line 248
sections == {<<"1">>, <<"1", "a">>, <<"7">>, <<"7", "a">>}

\* tokens as spaCy describes them: one that is kept, one kept as it is, a
\* stop word, a number, a comma, a blank
Tokens ==
    {[text |-> <<"T", "i", "m", "e">>, is_stop |-> FALSE, is_digit |-> FALSE,
      is_alpha |-> TRUE, is_punct |-> FALSE, is_space |-> FALSE,
      lemma_ |-> "time", pos_ |-> "NOUN"],
     [text |-> <<"i", "t", "e", "m">>, is_stop |-> FALSE, is_digit |-> FALSE,
      is_alpha |-> TRUE, is_punct |-> FALSE, is_space |-> FALSE,
      lemma_ |-> "item", pos_ |-> "NOUN"],
     [text |-> <<"T", "h", "e">>, is_stop |-> TRUE, is_digit |-> FALSE,
      is_alpha |-> TRUE, is_punct |-> FALSE, is_space |-> FALSE,
      lemma_ |-> "the", pos_ |-> "DET"],
     [text |-> <<"7">>, is_stop |-> FALSE, is_digit |-> TRUE,
      is_alpha |-> FALSE, is_punct |-> FALSE, is_space |-> FALSE,
      lemma_ |-> "7", pos_ |-> "NUM"],
     [text |-> <<",">>, is_stop |-> FALSE, is_digit |-> FALSE,
      is_alpha |-> FALSE, is_punct |-> TRUE, is_space |-> FALSE,
      lemma_ |-> ",", pos_ |-> "PUNCT"],
     [text |-> <<" ">>, is_stop |-> FALSE, is_digit |-> FALSE,
      is_alpha |-> FALSE, is_punct |-> FALSE, is_space |-> TRUE,
      lemma_ |-> " ", pos_ |-> "SPACE"]}

\* doc.sents: a sentence has a token at least
Sentences == SeqsUpTo(Tokens, MaxTokens) \ {<<>>}

\* nlp(text): one sentence, or a sentence of one token and a second sentence
Docs == {<<a>> : a \in Sentences} \cup {<<<<t>>, b>> : t \in Tokens, b \in Sentences}

\* a row of the sections csv whose item code is empty
BlankRow == <<NaN, <<<<CHOOSE t \in Tokens : t.lemma_ = "time">>>>>>

\* the sections csv: the row of one item (one of the sections, or another
\* item), after the row of an empty item code or without it
SectionCsvs ==
    {<<<<i, d>>>> : i \in {<<"7">>, <<"2">>}, d \in Docs}
        \cup {<<BlankRow, <<i, d>>>> : i \in {<<"7">>, <<"2">>}, d \in Docs}

\* --------------------------------------------------------- lines 319-321
\* DataFrame.dropna(): the rows without a null
dropna(rows) == SelectSeq(rows, LAMBDA r : r[1] # NaN /\ r[2] # NaN)

\* read_csv reads an empty field as NaN, and a column of numbers with an
\* empty field as floats: astype(str) then gives '7.0' for 7
astype_str(rows) ==
    LET numbers == \A i \in DOMAIN rows :
                       rows[i][1] = NaN \/ \A k \in DOMAIN rows[i][1] :
                                               rows[i][1][k] \in {"1", "2", "7"}
        floats  == numbers /\ \E i \in DOMAIN rows : rows[i][1] = NaN
    IN  [i \in DOMAIN dropna(rows) |->
            <<IF floats THEN dropna(rows)[i][1] \o <<".", "0">> ELSE dropna(rows)[i][1],
              dropna(rows)[i][2]>>]

\* items[items.item.isin(sections)]
isin(rows, values) == SelectSeq(rows, LAMBDA r : r[1] \in values)

\* --------------------------------------------------------- lines 330-344
\* variant: stop words are kept
is_kept_with_stop_words(token) ==
    ~ \/ token.is_digit
      \/ ~token.is_alpha
      \/ token.is_punct
      \/ token.is_space
      \/ token.lemma_ = "-PRON-"
      \/ token.pos_ \in {"PUNCT", "SYM", "X"}

\* lines 335-341: not any([...])
is_kept(token) ==
    ~ \/ token.is_stop
      \/ token.is_digit
      \/ ~token.is_alpha
      \/ token.is_punct
      \/ token.is_space
      \/ token.lemma_ = "-PRON-"
      \/ token.pos_ \in {"PUNCT", "SYM", "X"}

\* clean_sentence: token.text.lower() of the tokens kept
clean_sentence(sentence) ==
    LET kept == SelectSeq(sentence, is_kept)
    IN  [k \in DOMAIN kept |-> lower(kept[k].text)]

\* lines 331-344 on the row (item, text): enumerate(doc.sents) counts from 0;
\* a sentence adds its row when a token is left
clean_rows(item, doc) ==
    LET with_tokens == SelectSeq([k \in DOMAIN doc |-> k],
                                 LAMBDA k : Len(clean_sentence(doc[k])) > 0)
    IN  [j \in DOMAIN with_tokens |->
            <<item, with_tokens[j] - 1,
              join(<<" ">>, clean_sentence(doc[with_tokens[j]]))>>]

RECURSIVE iterrows(_)
\* line 329: for _, (item, text) in items.iterrows()
iterrows(rows) ==
    IF rows = <<>> THEN <<>>
    ELSE clean_rows(Head(rows)[1], Head(rows)[2]) \o iterrows(Tail(rows))

\* ------------------------------------------------------------- the steps
TokenInit ==
    /\ csv \in SectionCsvs
    /\ frame = <<>>
    /\ clean_doc = <<>> /\ clean_file = <<>>
    /\ tpc = "start"
    /\ RebalancerParked /\ JoinerParked /\ ExtractorParked /\ BatchParked
    /\ ZipParked /\ PhraseParked

\* lines 319-321
read_csv ==
    /\ tpc = "start"
    /\ frame' = isin(astype_str(csv), sections)
    /\ tpc' = "read"
    /\ UNCHANGED <<csv, clean_doc, clean_file>>
    /\ UNCHANGED <<vars, joinVars, extractVars, batchVars, zipVars, phraseVars>>

\* lines 328-348: the loop over the rows, then the clean csv is written
ParseRows ==
    /\ tpc = "read"
    /\ clean_doc' = iterrows(frame)
    /\ clean_file' = SelectSeq(clean_doc', LAMBDA r : r[1] # NaN /\ r[3] # NaN)
    /\ tpc' = "written"
    /\ UNCHANGED <<csv, frame>>
    /\ UNCHANGED <<vars, joinVars, extractVars, batchVars, zipVars, phraseVars>>

TokenNext == read_csv \/ ParseRows

TokenSpec == TokenInit /\ [][TokenNext]_allVars

TokenTypeOK ==
    /\ tpc \in {"start", "read", "written"}
    /\ Len(csv) \in {1, 2}
    /\ Len(frame) <= Len(csv)

\* ------------------------------------------------------------------ C22
\* the tokens the cleaned text may hold: alphabetic, and no stop word,
\* digit, punctuation or whitespace
MayStay(token) ==
    /\ token.is_alpha
    /\ ~token.is_stop /\ ~token.is_digit /\ ~token.is_punct /\ ~token.is_space

\* the tokens of `sentence` at the places of `at`, in their order
Picked(sentence, at) == SelectSeq([k \in DOMAIN sentence |-> k], LAMBDA k : k \in at)

\* no upper-case letter of the texts is left
Lowercased(text) == \A k \in DOMAIN text : text[k] \notin {"I", "T", "E", "M"}

\* C22: every row written is (item, sentence index, cleaned text) of a
\* section of the list: the text is made only of the lowercased tokens of the
\* sentence at that index that are alphabetic and no stop word, digit,
\* punctuation or whitespace, in their order; a sentence of which no token is
\* left has no row, so the indices are the places of the sentences in the
\* section, with gaps.
C22_CleanRows ==
    tpc = "written" =>
        /\ \A i \in DOMAIN clean_file :
              \E r \in DOMAIN csv :
                  /\ csv[r][1] # NaN
                  /\ clean_file[i][1] \in sections
                  /\ clean_file[i][2] + 1 \in DOMAIN csv[r][2]
                  /\ \E sentence \in {csv[r][2][clean_file[i][2] + 1]} :
                        /\ \E at \in SUBSET {k \in DOMAIN sentence : MayStay(sentence[k])} :
                              /\ at # {}
                              /\ clean_file[i][3] =
                                    join(<<" ">>, [k \in DOMAIN Picked(sentence, at) |->
                                                      lower(sentence[Picked(sentence, at)[k]].text)])
                        /\ Lowercased(clean_file[i][3])
        /\ \A i, j \in DOMAIN clean_file :
              i < j => clean_file[i][2] < clean_file[j][2]
        /\ \A r \in DOMAIN csv : \A k \in DOMAIN csv[r][2] :
              (\A t \in DOMAIN csv[r][2][k] : ~MayStay(csv[r][2][k][t])) =>
                  \A i \in DOMAIN clean_file : clean_file[i][2] # k - 1

\* the first sentence of a section of the list has no token left, the second
\* has two: the one row written has index 1 and both tokens in lower case
C22_Witness ==
    /\ tpc = "written"
    /\ Len(csv) = 1 /\ Len(csv[1][2]) = 2
    /\ \A t \in DOMAIN csv[1][2][1] : ~is_kept(csv[1][2][1][t])
    /\ Len(clean_file) = 1
    /\ clean_file[1] = <<<<"7">>, 1, <<"t", "i", "m", "e", " ", "i", "t", "e", "m">>>>

\* ========================================================= one phrase pass
\* the body of create_ngrams' loop (lines 466-481) on the corpus of one level:
\* Phrases counts tokens and adjacent pairs, Phraser keeps the pairs that
\* score above threshold, grams[sentences] joins them
\* ---------------------------------------------------------------- bound
\* most tokens of a sentence
MaxLen == 3

\* ------------------------------------------------------------- the input
\* lines 468-469: min_count=25, threshold=0.5
min_count == 25
threshold == Frac(1, 2)

\* the tokens of the corpus; a token is the list of the words joined in it
Words == {<<"a">>, <<"b">>, <<"c">>}

\* the corpus: a sentence held by min_count - 1 or min_count lines, and with
\* it or not a sentence of two tokens held by 40 lines
Corpora ==
    {<<<<s, k>>>> : s \in SeqsUpTo(Words, MaxLen) \ {<<>>}, k \in {min_count - 1, min_count}}
        \cup {<<<<s, k>>, <<<<u, v>>, 40>>>> :
                 s \in SeqsUpTo(Words, MaxLen) \ {<<>>}, k \in {min_count - 1, min_count},
                 u \in Words, v \in Words}

\* ------------------------------------------------------------- Phrases
\* delimiter.join([worda, wordb]), the delimiter left between the words
joined(worda, wordb) == worda \o wordb

\* learn_vocab on one sentence: what it adds to vocab[key], for every token
\* and for the joined pair of every two adjacent tokens
added(key, sentence) ==
    Cardinality({i \in DOMAIN sentence : sentence[i] = key})
        + Cardinality({i \in 1..(Len(sentence) - 1) :
                          joined(sentence[i], sentence[i + 1]) = key})

\* the keys learn_vocab makes
keys(lines) ==
    UNION {{lines[l][1][i] : i \in DOMAIN lines[l][1]}
             \cup {joined(lines[l][1][i], lines[l][1][i + 1]) :
                      i \in 1..(Len(lines[l][1]) - 1)} : l \in DOMAIN lines}

\* x to the power k
RECURSIVE pow(_, _)
pow(x, k) == IF k = 0 THEN 1 ELSE x * pow(x, k - 1)

\* variant: without the test of min_count
npmi_above_any_count(worda_count, wordb_count, bigram_count, N) ==
    pow(bigram_count, threshold.d + threshold.n) * pow(N, threshold.d - threshold.n)
        > pow(worda_count * wordb_count, threshold.d)

\* npmi_scorer(...) > threshold: -inf below min_count, else
\* ln(pab / (pa * pb)) / -ln(pab) > n/d, which in whole numbers is
\* bigram^(d+n) * N^(d-n) > (worda * wordb)^d
npmi_above(worda_count, wordb_count, bigram_count, N) ==
    /\ bigram_count >= min_count
    /\ pow(bigram_count, threshold.d + threshold.n) * pow(N, threshold.d - threshold.n)
          > pow(worda_count * wordb_count, threshold.d)

\* score_item(worda, wordb) > threshold: -1 when a key is not in vocab
score_above(worda, wordb) ==
    /\ {worda, wordb, joined(worda, wordb)} \subseteq DOMAIN vocab
    /\ npmi_above(vocab[worda], vocab[wordb], vocab[joined(worda, wordb)],
                  corpus_word_count)

RECURSIVE analyze_sentence(_)
\* analyze_sentence and Phraser.__getitem__: from the left, a pair in
\* phrasegrams becomes one token and the scan goes on behind it; else the
\* first token is released and the second is tried with the one after it
analyze_sentence(sentence) ==
    IF Len(sentence) < 2 THEN sentence
    ELSE IF <<sentence[1], sentence[2]>> \in phrasegrams
    THEN <<joined(sentence[1], sentence[2])>>
             \o analyze_sentence(SubSeq(sentence, 3, Len(sentence)))
    ELSE <<sentence[1]>> \o analyze_sentence(Tail(sentence))

\* ------------------------------------------------------------- the steps
PhraseInit ==
    /\ corpus \in Corpora
    /\ vocab = <<>>
    /\ corpus_word_count = 0
    /\ phrasegrams = {}
    /\ next_corpus = <<>>
    /\ ppc = "start"
    /\ RebalancerParked /\ JoinerParked /\ ExtractorParked /\ BatchParked
    /\ ZipParked /\ TokenParked

\* lines 466-473: Phrases(sentences, ...) counts the corpus
Phrases ==
    /\ ppc = "start"
    /\ vocab' = [key \in keys(corpus) |->
                    SumSeq([l \in DOMAIN corpus |-> corpus[l][2] * added(key, corpus[l][1])])]
    /\ corpus_word_count' = SumSeq([l \in DOMAIN corpus |-> corpus[l][2] * Len(corpus[l][1])])
    /\ ppc' = "learned"
    /\ UNCHANGED <<corpus, phrasegrams, next_corpus>>
    /\ UNCHANGED <<vars, joinVars, extractVars, batchVars, zipVars, tokenVars>>

\* line 479: Phraser(phrases) keeps the pairs of vocab that score above
\* threshold
Phraser ==
    /\ ppc = "learned"
    /\ phrasegrams' = {pair \in Words \X Words : score_above(pair[1], pair[2])}
    /\ ppc' = "frozen"
    /\ UNCHANGED <<corpus, vocab, corpus_word_count, next_corpus>>
    /\ UNCHANGED <<vars, joinVars, extractVars, batchVars, zipVars, tokenVars>>

\* lines 480-481: grams[sentences] written as the corpus of the next level
write_text ==
    /\ ppc = "frozen"
    /\ next_corpus' = [l \in DOMAIN corpus |-> <<analyze_sentence(corpus[l][1]), corpus[l][2]>>]
    /\ ppc' = "written"
    /\ UNCHANGED <<corpus, vocab, corpus_word_count, phrasegrams>>
    /\ UNCHANGED <<vars, joinVars, extractVars, batchVars, zipVars, tokenVars>>

PhraseNext == Phrases \/ Phraser \/ write_text

PhraseSpec == PhraseInit /\ [][PhraseNext]_allVars

PhraseTypeOK ==
    /\ ppc \in {"start", "learned", "frozen", "written"}
    /\ phrasegrams \subseteq Words \X Words
    /\ Len(next_corpus) \in {0, Len(corpus)}

\* ------------------------------------------------------------------ C24
\* the times the token w, or the pair w next to x, appears in the corpus
Appears(w, x) ==
    SumSeq([l \in DOMAIN corpus |->
               corpus[l][2] * Cardinality({i \in DOMAIN corpus[l][1] :
                   /\ corpus[l][1][i] = w
                   /\ x # <<>> => (i < Len(corpus[l][1]) /\ corpus[l][1][i + 1] = x)})])

\* the pair appears min_count times at least and its npmi exceeds threshold:
\* ln(pab / (pa pb)) / -ln(pab) > 1/2 is pab^3 > (pa pb)^2
Qualifies(w, x) ==
    /\ Appears(w, x) >= 25
    /\ Appears(w, x) * Appears(w, x) * Appears(w, x) * corpus_word_count
          > Appears(w, <<>>) * Appears(w, <<>>) * Appears(x, <<>>) * Appears(x, <<>>)

\* in line l of the next level the tokens at i and i + 1 of the sentence are
\* one token, joined
Joined(l, i) ==
    \E j \in DOMAIN next_corpus[l][1] :
        /\ next_corpus[l][1][j] = corpus[l][1][i] \o corpus[l][1][i + 1]
        /\ SumSeq([k \in 1..(j - 1) |-> Len(next_corpus[l][1][k])]) = i - 1

\* C24 as stated: every adjacent pair that appears 25 times at least and
\* whose npmi exceeds 0.5 is one token joined with '_' in the next level,
\* and every pair below the count or the score stays two tokens.
C24_EveryQualifyingPairJoined ==
    ppc = "written" =>
        \A l \in DOMAIN corpus : \A i \in 1..(Len(corpus[l][1]) - 1) :
            Joined(l, i) <=> Qualifies(corpus[l][1][i], corpus[l][1][i + 1])

\* C24, corrected: sentences are scanned from the left and a token is part
\* of one joined pair at most: an adjacent pair is one token in the next
\* level exactly when it appears 25 times at least, its npmi exceeds 0.5,
\* and its first token has not been joined with the token before it; every
\* other pair stays two tokens.
C24_QualifyingPairJoinedFromLeft ==
    ppc = "written" =>
        \A l \in DOMAIN corpus : \A i \in 1..(Len(corpus[l][1]) - 1) :
            Joined(l, i) <=>
                /\ Qualifies(corpus[l][1][i], corpus[l][1][i + 1])
                /\ i > 1 => ~Joined(l, i - 1)

\* the sentence a b c is on 25 lines: a b and b c both qualify, the next
\* level has a_b c
C24_Witness ==
    /\ ppc = "written"
    /\ corpus[1] = <<<<<<"a">>, <<"b">>, <<"c">>>>, 25>>
    /\ Qualifies(<<"a">>, <<"b">>) /\ Qualifies(<<"b">>, <<"c">>)
    /\ next_corpus[1][1] = <<<<"a", "b">>, <<"c">>>>

====
